---- MODULE Spec2Model ----
(***************************************************************************)
(* A model of src/Revisioncode.py: the Streamlit script that gates an      *)
(* R0-vs-R1 spreadsheet comparison behind an e-mail OTP login.             *)
(*                                                                         *)
(* A Python str is a sequence of one-character strings, so that strip(),   *)
(* f-string formatting, " | ".join, the lexicographic order of sorted()    *)
(* and the test  "→" in value  are computed and not assumed.  A dict is a  *)
(* function from its keys; None/an unbound name is the empty sequence <<>> *)
(* and a bound value v is <<v>>.                                           *)
(***************************************************************************)
EXTENDS Integers, Sequences, FiniteSets, TLC

VARIABLES
    authenticated, otp, otp_time, email, run, completed,  \* st.session_state
    r0_file, r1_file, user_otp, clicked,                  \* widget values of the latest script run
    now,                                                  \* time.time()
    page, error, logout_shown,                            \* how the latest script run ended
    r0_df, r1_df, all_columns, comparison_rows,           \* names bound in the latest script run
    comparison_df, export,
    prev_df                                               \* result of the comparison before the latest one

vars == <<authenticated, otp, otp_time, email, run, completed,
          r0_file, r1_file, user_otp, clicked, now, page, error, logout_shown,
          r0_df, r1_df, all_columns, comparison_rows, comparison_df, export,
          prev_df>>

---------------------------------------------------------------------------
(* Bounds of the model                                                     *)

MaxRows == 2      \* rows of the two uploaded sheets together
MaxCells == 2     \* cells of the two uploaded sheets outside their Tag columns
MaxTime == 452    \* the clock stops here

---------------------------------------------------------------------------
(* Python values                                                           *)

None == <<>>
Some(v) == <<v>>
Bound(x) == x # <<>>
ValueOf(x) == x[1]

Range(s) == {s[i] : i \in 1..Len(s)}
In(x, s) == \E i \in 1..Len(s) : s[i] = x

\* list.index(x), 0-based, of an x that is in the list
ListIndex(s, x) == (CHOOSE i \in 1..Len(s) : s[i] = x /\ \A j \in 1..(i-1) : s[j] # x) - 1

RemoveAt(s, t) == SubSeq(s, 1, t-1) \o SubSeq(s, t+1, Len(s))

\* string literals of the script
EmptyStr == <<>>
Tag == <<"T","a","g">>
Change_Type == <<"C","h","a","n","g","e","_","T","y","p","e">>
Change_Summary == <<"C","h","a","n","g","e","_","S","u","m","m","a","r","y">>
AddedInR1 == <<"A","d","d","e","d"," ","i","n"," ","R","1">>
RemovedInR1 == <<"R","e","m","o","v","e","d"," ","i","n"," ","R","1">>
Modified == <<"M","o","d","i","f","i","e","d">>
NoChange == <<"N","o"," ","C","h","a","n","g","e">>
ArrowChar == "→"
ArrowSep == <<" ", ArrowChar, " ">>
ColonSep == <<":", " ">>
BarSep == <<" ", "|", " ">>

\* the missing-value marker pandas reads from an empty cell (not a str)
NaN == <<"NaN">>

Whitespace == {" ", "\t", "\n", "\r"}

RECURSIVE LStrip(_)
LStrip(s) == IF s # <<>> /\ Head(s) \in Whitespace THEN LStrip(Tail(s)) ELSE s

RECURSIVE RStrip(_)
RStrip(s) == IF s # <<>> /\ s[Len(s)] \in Whitespace THEN RStrip(SubSeq(s, 1, Len(s)-1)) ELSE s

\* str.strip()
Strip(s) == RStrip(LStrip(s))

\* the test  c in s  for a one-character c
Contains(s, c) == \E i \in 1..Len(s) : s[i] = c

\* sep.join(parts)
RECURSIVE Join(_, _)
Join(sep, parts) ==
    IF parts = <<>> THEN EmptyStr
    ELSE IF Len(parts) = 1 THEN parts[1]
    ELSE parts[1] \o sep \o Join(sep, Tail(parts))

\* ord(c), for the characters the model's cells are written with
CodePoint(c) ==
    CASE c = " " -> 32
      [] c = "5" -> 53
      [] c = "A" -> 65
      [] c = "B" -> 66
      [] c = ArrowChar -> 8594

\* a < b on str: by code point, a proper prefix first
RECURSIVE StrLess(_, _)
StrLess(a, b) ==
    IF b = <<>> THEN FALSE
    ELSE IF a = <<>> THEN TRUE
    ELSE IF Head(a) = Head(b) THEN StrLess(Tail(a), Tail(b))
    ELSE CodePoint(Head(a)) < CodePoint(Head(b))

---------------------------------------------------------------------------
(* The sheets a user can upload                                            *)

ColNames == {<<"Q">>, Change_Type}
TagVals == {<<"B">>, <<"A","B">>}
CellVals == {NaN, <<"5">>, <<"5"," ">>, <<ArrowChar>>}

\* The interpreter's string-hash seeds.  The iteration order of a set of str
\* is fixed by the seed, which every interpreter process draws at start-up
\* (hash randomisation): the source determines no order.
Seeds == {0, 1}

Reverse(s) == [i \in 1..Len(s) |-> s[Len(s) + 1 - i]]

\* the order in which an interpreter with this seed iterates over a set of
\* these strings
HashOrder(seed) ==
    LET one == <<<<"Q">>, Change_Type, <<"B">>, <<"A","B">>>>
    IN  IF seed = 0 THEN one ELSE Reverse(one)

\* list(S), for a set S of str
SetIter(S, seed) ==
    LET member(x) == x \in S
    IN  SelectSeq(HashOrder(seed), member)

\* every list of n distinct elements of S
RECURSIVE Injective(_, _)
Injective(S, n) ==
    IF n = 0 THEN {<<>>}
    ELSE UNION { { <<x>> \o t : t \in Injective(S \ {x}, n-1) } : x \in S }

\* header rows: distinct column names (pandas renames a repeated one), Tag
\* anywhere or missing
Headers == UNION { Injective(ColNames \cup {Tag}, n) : n \in 0..(Cardinality(ColNames) + 1) }

DataCols(header) == Cardinality(Range(header) \ {Tag})

\* the rows under a header: a tag in the Tag column, a text or nothing elsewhere
SheetRows(header) ==
    { r \in [1..Len(header) -> CellVals \cup TagVals] :
        \A j \in 1..Len(header) :
            IF header[j] = Tag THEN r[j] \in TagVals ELSE r[j] \in CellVals }

\* the numbers of rows a sheet under this header may have
RowCounts(header) ==
    { n \in 0..MaxRows : n * DataCols(header) <= MaxCells /\ (n > 0 => header # <<>>) }

\* a sheet as the workbook holds it: a header row and rows of cells
Sheet(header, rows) == [cols |-> header, rows |-> rows]

SheetCells(sheet) == Len(sheet.rows) * DataCols(sheet.cols)

\* the two uploads of one comparison hold MaxRows rows and MaxCells cells
\* outside the Tag columns between them
PairInBounds(s0, s1) ==
    /\ Len(s0.rows) + Len(s1.rows) <= MaxRows
    /\ SheetCells(s0) + SheetCells(s1) <= MaxCells

---------------------------------------------------------------------------
(* Loading: pd.read_excel(file, dtype=str).fillna("")                      *)

\* a loader that trims the texts as well
FillNaStrip(v) == IF v = NaN THEN EmptyStr ELSE Strip(v)

\* fillna(""), on one cell
FillNa(v) == IF v = NaN THEN EmptyStr ELSE v

\* the DataFrame read from a sheet: its columns and its rows of str
ReadExcel(sheet) ==
    [columns |-> sheet.cols,
     rows    |-> [i \in 1..Len(sheet.rows) |->
                    [j \in 1..Len(sheet.cols) |-> FillNa(sheet.rows[i][j])]]]

\* the check with  and  for  or
TagMissingBoth(df0, df1) == ~In(Tag, df0.columns) /\ ~In(Tag, df1.columns)

\* "Tag" not in r0_df.columns or "Tag" not in r1_df.columns
TagMissing(df0, df1) == ~In(Tag, df0.columns) \/ ~In(Tag, df1.columns)

\* the rows drop_duplicates(subset="Tag") keeps: the first of each Tag
KeptRows(df) ==
    LET t == ListIndex(df.columns, Tag) + 1
        first(i) == \A j \in 1..(i-1) : df.rows[j][t] # df.rows[i][t]
        RECURSIVE keep(_)
        keep(i) == IF i > Len(df.rows) THEN <<>>
                   ELSE IF first(i) THEN <<df.rows[i]>> \o keep(i+1) ELSE keep(i+1)
    IN  keep(1)

\* df.drop_duplicates(subset="Tag").set_index("Tag"): the Tag column becomes
\* the index and leaves the columns
DedupIndex(df) ==
    LET t == ListIndex(df.columns, Tag) + 1
        kept == KeptRows(df)
    IN  [index   |-> [i \in 1..Len(kept) |-> kept[i][t]],
         columns |-> RemoveAt(df.columns, t),
         rows    |-> [i \in 1..Len(kept) |-> RemoveAt(kept[i], t)]]

\* df.loc[tag].get(col, ""), for a tag of the index
LocGet(df, tag, col) ==
    IF In(col, df.columns)
    THEN df.rows[ListIndex(df.index, tag) + 1][ListIndex(df.columns, col) + 1]
    ELSE EmptyStr

---------------------------------------------------------------------------
(* The comparison                                                          *)

\* sorted(seq, key=...): a stable sort, key a function on the elements
RECURSIVE InsertByKey(_, _, _)
InsertByKey(sorted, x, key) ==
    IF sorted = <<>> THEN <<x>>
    ELSE IF key[x] < key[Head(sorted)] THEN <<x>> \o sorted
    ELSE <<Head(sorted)>> \o InsertByKey(Tail(sorted), x, key)

RECURSIVE SortedByKey(_, _)
SortedByKey(seq, key) ==
    IF seq = <<>> THEN <<>>
    ELSE InsertByKey(SortedByKey(SubSeq(seq, 1, Len(seq)-1), key), seq[Len(seq)], key)

\* sorted(seq) on str
RECURSIVE InsertStr(_, _)
InsertStr(sorted, x) ==
    IF sorted = <<>> THEN <<x>>
    ELSE IF StrLess(x, Head(sorted)) THEN <<x>> \o sorted
    ELSE <<Head(sorted)>> \o InsertStr(Tail(sorted), x)

RECURSIVE SortedStr(_)
SortedStr(seq) ==
    IF seq = <<>> THEN <<>>
    ELSE InsertStr(SortedStr(SubSeq(seq, 1, Len(seq)-1)), seq[Len(seq)])

\* all_columns: the union of the two column sets, sorted by the position in
\* r0_columns, every other column at float("inf") (here: past the last index)
AllColumns(df0, df1, seed) ==
    LET r0_columns == df0.columns
        union == Range(df0.columns) \cup Range(df1.columns)
        key == [x \in union |-> IF In(x, r0_columns) THEN ListIndex(r0_columns, x)
                                                     ELSE Len(r0_columns)]
    IN  SortedByKey(SetIter(union, seed), key)

\* the key union without sorted()
AllTagsUnsorted(df0, df1, seed) ==
    SetIter(Range(df0.index) \cup Range(df1.index), seed)

\* all_tags = sorted(set(r0_df.index).union(set(r1_df.index)))
AllTags(df0, df1, seed) ==
    SortedStr(SetIter(Range(df0.index) \cup Range(df1.index), seed))

\* {col: df.loc[tag].get(col, "") for col in all_columns}
RowValues(df, tag, columns) ==
    [col \in Range(columns) |-> LocGet(df, tag, col)]

\* the row of a tag that only one side has; row.update() overwrites a key
\* the row already holds, and Change_Summary is set last
OneSidedRow(df, tag, columns, change_type) ==
    LET row == (Tag :> tag) @@ (Change_Type :> change_type)
        updated == RowValues(df, tag, columns) @@ row
    IN  (Change_Summary :> EmptyStr) @@ updated

\* the loop  for col in all_columns  of a tag both sides have, from
\* acc = [row_data, summary, changed]
RECURSIVE ColumnLoop(_, _, _, _, _)
ColumnLoop(df0, df1, tag, columns, acc) ==
    IF columns = <<>> THEN acc
    ELSE
        LET col == Head(columns)
            v0 == LocGet(df0, tag, col)
            v1 == LocGet(df1, tag, col)
            next ==
                IF Strip(v0) # Strip(v1)
                THEN [row_data |-> (col :> (v0 \o ArrowSep \o v1)) @@ acc.row_data,
                      summary  |-> Append(acc.summary, col \o ColonSep \o v0 \o ArrowSep \o v1),
                      changed  |-> TRUE]
                ELSE [row_data |-> (col :> v1) @@ acc.row_data,
                      summary  |-> acc.summary,
                      changed  |-> acc.changed]
        IN  ColumnLoop(df0, df1, tag, Tail(columns), next)

\* after the loop: Change_Type and Change_Summary are set on row_data
FinishRow(done) ==
    (Change_Summary :> Join(BarSep, done.summary))
        @@ (Change_Type :> (IF done.changed THEN Modified ELSE NoChange))
        @@ done.row_data

\* the row of a tag both sides have
BothSidesRow(df0, df1, tag, columns) ==
    FinishRow(ColumnLoop(df0, df1, tag, columns,
                         [row_data |-> (Tag :> tag), summary |-> <<>>, changed |-> FALSE]))

\* one pass of  for tag in all_tags
ComparisonRow(df0, df1, tag, columns) ==
    IF ~In(tag, df0.index) THEN OneSidedRow(df1, tag, columns, AddedInR1)
    ELSE IF ~In(tag, df1.index) THEN OneSidedRow(df0, tag, columns, RemovedInR1)
    ELSE BothSidesRow(df0, df1, tag, columns)

ComparisonRows(df0, df1, tags, columns) ==
    [i \in 1..Len(tags) |-> ComparisonRow(df0, df1, tags[i], columns)]

\* final_columns
FinalColumns(columns) == <<Tag, Change_Type>> \o columns \o <<Change_Summary>>

\* the columns of pd.DataFrame(rows): the keys of the dicts, none for no rows
FrameColumns(rows) == UNION { DOMAIN rows[i] : i \in 1..Len(rows) }

\* pd.DataFrame(rows)[final]: a KeyError (None here) when a name of final is
\* no column of the frame, else the frame with these columns in this order
SelectColumns(rows, final) ==
    IF \E j \in 1..Len(final) : final[j] \notin FrameColumns(rows)
    THEN None
    ELSE Some([columns |-> final,
               rows    |-> [i \in 1..Len(rows) |-> [j \in 1..Len(final) |-> rows[i][final[j]]]]])

\* the workbook of the export: the header and the rows of the frame, and the
\* cells that get the highlight fill
ExportSheet(df) ==
    LET cells == <<df.columns>> \o df.rows
    IN  [cells     |-> cells,
         highlight |-> { <<r, c>> \in (1..Len(cells)) \X (1..Len(df.columns)) :
                            Contains(cells[r][c], ArrowChar) }]

---------------------------------------------------------------------------
(* One run of the script below the login gate                              *)

OTP_EXPIRY_SECONDS == 300

\* what a script run that never reaches the processing block has bound
NoLocals ==
    [error |-> "none", r0_df |-> None, r1_df |-> None, all_columns |-> None,
     comparison_rows |-> None, comparison_df |-> None]

\* lines 194-196: the frame of the rows and the selection of final_columns,
\* which raises KeyError when the frame lacks one of them
FrameBlock(df0, df1, columns, rows, selected) ==
    [error |-> IF Bound(selected) THEN "none" ELSE "KeyError",
     r0_df |-> Some(df0), r1_df |-> Some(df1),
     all_columns |-> Some(columns),
     comparison_rows |-> Some(rows),
     comparison_df |-> IF Bound(selected) THEN selected
                       ELSE Some([columns |-> <<>>, rows |-> rows])]

\* lines 156-191: the loop over all_tags
LoopBlock(df0, df1, columns, tags) ==
    LET rows == ComparisonRows(df0, df1, tags, columns)
    IN  FrameBlock(df0, df1, columns, rows, SelectColumns(rows, FinalColumns(columns)))

\* lines 148-154: the column union and the key union, in an interpreter with
\* this hash seed
UnionBlock(df0, df1, seed) ==
    LoopBlock(df0, df1, AllColumns(df0, df1, seed), AllTags(df0, df1, seed))

\* lines 140-146: st.stop() on a missing Tag column, else the deduplication
\* (which raises KeyError on a frame without the column)
TagBlock(read0, read1, seed) ==
    IF TagMissing(read0, read1)
    THEN [NoLocals EXCEPT !.error = "SchemaError",
                          !.r0_df = Some(read0), !.r1_df = Some(read1)]
    ELSE IF ~In(Tag, read0.columns) \/ ~In(Tag, read1.columns)
    THEN [NoLocals EXCEPT !.error = "KeyError",
                          !.r0_df = Some(read0), !.r1_df = Some(read1)]
    ELSE UnionBlock(DedupIndex(read0), DedupIndex(read1), seed)

\* the processing block, on the two uploads (None: no file): the names it
\* binds and how it ends.  read_excel raises on a missing file
ProcessingBlock(f0, f1, seed) ==
    IF ~Bound(f0) \/ ~Bound(f1) THEN [NoLocals EXCEPT !.error = "ValueError"]
    ELSE TagBlock(ReadExcel(ValueOf(f0)), ReadExcel(ValueOf(f1)), seed)

\* lines 206-242 after the processing block ended with loc (process: it
\* ran): the results block reads r0_df, r1_df and comparison_df; an
\* exception or st.stop() ends the run before the Logout button
ResultsBlock(run1, completed1, process, loc) ==
    LET completed2 == IF process THEN loc.error = "none" ELSE completed1
        results == loc.error = "none" /\ completed2
        raised == IF results /\ ~Bound(loc.r0_df) THEN "NameError" ELSE loc.error
    IN  [run |-> run1, completed |-> completed2, error |-> raised,
         r0_df |-> loc.r0_df, r1_df |-> loc.r1_df,
         all_columns |-> loc.all_columns,
         comparison_rows |-> loc.comparison_rows,
         comparison_df |-> loc.comparison_df,
         export |-> IF results /\ raised = "none"
                    THEN Some(ExportSheet(ValueOf(loc.comparison_df))) ELSE None,
         logout_shown |-> raised = "none"]

\* lines 117-201: the Run button (click: it was pressed) sets the flags, and
\* the processing block runs while run and not completed
ButtonBlock(f0, f1, seed, run1, completed1) ==
    ResultsBlock(run1, completed1, run1 /\ ~completed1,
                 IF run1 /\ ~completed1 THEN ProcessingBlock(f0, f1, seed) ELSE NoLocals)

\* the script below the login gate: the session flags and the bound names
\* it leaves
MainPass(click, f0, f1, seed, run0, completed0) ==
    ButtonBlock(f0, f1, seed, click \/ run0, ~click /\ completed0)

\* the state a main-page run leaves
MainPage(out) ==
    /\ page' = "main"
    /\ run' = out.run
    /\ completed' = out.completed
    /\ error' = out.error
    /\ r0_df' = out.r0_df
    /\ r1_df' = out.r1_df
    /\ all_columns' = out.all_columns
    /\ comparison_rows' = out.comparison_rows
    /\ comparison_df' = out.comparison_df
    /\ export' = out.export
    /\ logout_shown' = out.logout_shown

\* the state a run that ends at the login gate's st.stop() leaves
LoginPage(message) ==
    /\ page' = "login"
    /\ error' = message
    /\ r0_df' = None
    /\ r1_df' = None
    /\ all_columns' = None
    /\ comparison_rows' = None
    /\ comparison_df' = None
    /\ export' = None
    /\ logout_shown' = FALSE

---------------------------------------------------------------------------
(* The session                                                             *)

NoOtp == "None"
NoTime == -1
NoEmail == "None"
OtpCodes == {"100000", "999999"}        \* generate_otp()
Emails == {"", "user@example.com"}      \* the e-mail text input
TickSteps == {150, 151}

\* the sheets of the session model's uploads
SessionSheets ==
    { [cols |-> << <<"Q">> >>, rows |-> <<>>],
      [cols |-> <<Tag>>, rows |-> <<>>],
      [cols |-> <<Tag, <<"Q">>>>, rows |-> << << <<"B">>, <<"5">> >>, << <<"B">>, <<"5", " ">> >> >>] }

\* the expiry test with its operands exchanged
OtpExpiredSwapped(t, sent) == sent - t > OTP_EXPIRY_SECONDS

\* time.time() - st.session_state.otp_time > OTP_EXPIRY_SECONDS
OtpExpired(t, sent) == t - sent > OTP_EXPIRY_SECONDS

\* the defaults of st.session_state, and widgets with nothing in them
FreshSession ==
    /\ authenticated = FALSE
    /\ otp = NoOtp
    /\ otp_time = NoTime
    /\ email = NoEmail
    /\ run = FALSE
    /\ completed = FALSE
    /\ r0_file = None
    /\ r1_file = None
    /\ user_otp = ""
    /\ clicked = "none"

Init ==
    /\ FreshSession
    /\ now = 0
    /\ page = "login"
    /\ error = "none"
    /\ logout_shown = FALSE
    /\ r0_df = None
    /\ r1_df = None
    /\ all_columns = None
    /\ comparison_rows = None
    /\ comparison_df = None
    /\ export = None
    /\ prev_df = None

\* the clock advances
Tick ==
    /\ \E d \in TickSteps : now + d <= MaxTime /\ now' = now + d
    /\ UNCHANGED <<authenticated, otp, otp_time, email, run, completed,
                   r0_file, r1_file, user_otp, clicked, page, error, logout_shown,
                   r0_df, r1_df, all_columns, comparison_rows, comparison_df,
                   export, prev_df>>

\* the Send OTP button, with this text in the e-mail input; send_otp raises
\* when the SMTP server refuses, and the run ends before the OTP is stored
SendOtp ==
    /\ ~authenticated
    /\ \E e \in Emails, code \in OtpCodes, delivered \in BOOLEAN :
          IF e = ""
          THEN /\ LoginPage("Email is required")
               /\ UNCHANGED <<otp, otp_time, email>>
          ELSE IF ~delivered
          THEN /\ LoginPage("SMTPException")
               /\ UNCHANGED <<otp, otp_time, email>>
          ELSE /\ otp' = code
               /\ otp_time' = now
               /\ email' = e
               /\ LoginPage("none")
    /\ clicked' = "Send OTP"
    /\ UNCHANGED <<authenticated, run, completed, r0_file, r1_file, user_otp, now, prev_df>>

\* the Verify OTP button, shown while an OTP is stored, with this text in the
\* OTP input; st.rerun() after a login runs the script again, past the gate
VerifyOtp ==
    /\ ~authenticated
    /\ otp # NoOtp
    /\ \E entered \in OtpCodes \cup {""}, seed \in Seeds :
          /\ user_otp' = entered
          /\ IF OtpExpired(now, otp_time)
             THEN /\ otp' = NoOtp
                  /\ LoginPage("OTP expired. Request a new one.")
                  /\ UNCHANGED <<authenticated, run, completed>>
             ELSE IF entered = otp
             THEN /\ authenticated' = TRUE
                  /\ MainPage(MainPass(FALSE, r0_file, r1_file, seed, run, completed))
                  /\ UNCHANGED otp
             ELSE /\ LoginPage("Invalid OTP")
                  /\ UNCHANGED <<authenticated, otp, run, completed>>
    /\ clicked' = "Verify OTP"
    /\ UNCHANGED <<otp_time, email, r0_file, r1_file, now, prev_df>>

\* a change of the two file uploaders
Upload ==
    /\ authenticated
    /\ \E f0, f1 \in {None} \cup {Some(s) : s \in SessionSheets}, seed \in Seeds :
          /\ <<f0, f1>> # <<r0_file, r1_file>>
          /\ r0_file' = f0
          /\ r1_file' = f1
          /\ MainPage(MainPass(FALSE, f0, f1, seed, run, completed))
    /\ clicked' = "none"
    /\ UNCHANGED <<authenticated, otp, otp_time, email, user_otp, now, prev_df>>

\* the Run Comparison button, enabled while both files are there
RunComparison ==
    /\ authenticated
    /\ Bound(r0_file) /\ Bound(r1_file)
    /\ \E seed \in Seeds :
          MainPage(MainPass(TRUE, r0_file, r1_file, seed, run, completed))
    /\ clicked' = "Run Comparison"
    /\ prev_df' = comparison_df
    /\ UNCHANGED <<authenticated, otp, otp_time, email, r0_file, r1_file, user_otp, now>>

\* the download button, shown once the export is there
Download ==
    /\ authenticated
    /\ Bound(export)
    /\ \E seed \in Seeds :
          MainPage(MainPass(FALSE, r0_file, r1_file, seed, run, completed))
    /\ clicked' = "Download"
    /\ UNCHANGED <<authenticated, otp, otp_time, email, r0_file, r1_file, user_otp, now, prev_df>>

\* session_state.clear() and st.rerun(), when the run reached the Logout
\* button (out: what the script left down to it)
LogoutRun(out) ==
    IF out.logout_shown
    THEN /\ authenticated' = FALSE
         /\ otp' = NoOtp
         /\ otp_time' = NoTime
         /\ email' = NoEmail
         /\ run' = FALSE
         /\ completed' = FALSE
         /\ r0_file' = None
         /\ r1_file' = None
         /\ user_otp' = ""
         /\ LoginPage("none")
    ELSE /\ MainPage(out)
         /\ UNCHANGED <<authenticated, otp, otp_time, email, r0_file, r1_file, user_otp>>

\* the Logout button of the sidebar, shown by a run that reached it
Logout ==
    /\ authenticated
    /\ logout_shown
    /\ clicked' = "Logout"
    /\ \E seed \in Seeds :
          LogoutRun(MainPass(FALSE, r0_file, r1_file, seed, run, completed))
    /\ UNCHANGED <<now, prev_df>>

Next == Tick \/ SendOtp \/ VerifyOtp \/ Upload \/ RunComparison \/ Download \/ Logout

\* the whole application, from a fresh session
Spec == Init /\ [][Next]_vars

\* the comparison alone: a logged-in session with two uploads, compared again
\* and again (by interpreter processes of any hash seed)
InitDiff ==
    /\ \E h0 \in Headers, h1 \in Headers :
         \E n0 \in RowCounts(h0), n1 \in RowCounts(h1) :
            \E rows0 \in [1..n0 -> SheetRows(h0)], rows1 \in [1..n1 -> SheetRows(h1)] :
               /\ PairInBounds(Sheet(h0, rows0), Sheet(h1, rows1))
               /\ r0_file = Some(Sheet(h0, rows0))
               /\ r1_file = Some(Sheet(h1, rows1))
    /\ authenticated = TRUE
    /\ otp = "100000"
    /\ otp_time = 0
    /\ email = "user@example.com"
    /\ run = FALSE
    /\ completed = FALSE
    /\ user_otp = "100000"
    /\ clicked = "Verify OTP"
    /\ now = 0
    /\ page = "main"
    /\ error = "none"
    /\ logout_shown = TRUE
    /\ r0_df = None
    /\ r1_df = None
    /\ all_columns = None
    /\ comparison_rows = None
    /\ comparison_df = None
    /\ export = None
    /\ prev_df = None

NextDiff == RunComparison

SpecDiff == InitDiff /\ [][NextDiff]_vars

---------------------------------------------------------------------------
(* What the properties are stated with: the uploads as the user wrote them *)
(* and the frame the comparison produced                                   *)

Sheet0 == ValueOf(r0_file)
Sheet1 == ValueOf(r1_file)
Result == ValueOf(comparison_df)

HasTag(sheet) == In(Tag, sheet.cols)
BothHaveTag == Bound(r0_file) /\ Bound(r1_file) /\ HasTag(Sheet0) /\ HasTag(Sheet1)

\* the processing block ran in the latest script run
Loaded == page = "main" /\ Bound(r0_df) /\ Bound(r1_df)
\* ... and produced the result frame
Compared == Loaded /\ error = "none" /\ Bound(comparison_df)

Position(seq, x) == CHOOSE j \in 1..Len(seq) : seq[j] = x /\ \A k \in 1..(j-1) : seq[k] # x

SheetTags(sheet) == { sheet.rows[i][Position(sheet.cols, Tag)] : i \in 1..Len(sheet.rows) }

\* the text a sheet holds for a tag in a column: that of the first row with
\* the tag, nothing for an empty cell or a column the sheet lacks
SheetText(sheet, tag, col) ==
    IF ~In(col, sheet.cols) THEN EmptyStr
    ELSE LET t == Position(sheet.cols, Tag)
             i == CHOOSE r \in 1..Len(sheet.rows) :
                      sheet.rows[r][t] = tag /\ \A q \in 1..(r-1) : sheet.rows[q][t] # tag
             v == sheet.rows[i][Position(sheet.cols, col)]
         IN  IF v = NaN THEN EmptyStr ELSE v

DataColumns(sheet) ==
    LET data(c) == c # Tag
    IN  SelectSeq(sheet.cols, data)

\* R0's columns in their order, then the columns only R1 has in R1's order
ExpectedColumns ==
    LET new(c) == ~In(c, Sheet0.cols)
    IN  DataColumns(Sheet0) \o SelectSeq(DataColumns(Sheet1), new)

ResultTags == [i \in 1..Len(Result.rows) |-> Result.rows[i][1]]
ResultType(i) == Result.rows[i][2]
\* the rendered cell of row i in the k-th column of the column union
ResultCell(i, k) == Result.rows[i][2 + k]

Differs(tag, col) == Strip(SheetText(Sheet0, tag, col)) # Strip(SheetText(Sheet1, tag, col))

Alphabet == {" ", "5", "A", "B", ArrowChar}
IsStr(v) == v # NaN /\ \A k \in 1..Len(v) : v[k] \in Alphabet

---------------------------------------------------------------------------
(* C1: the result holds exactly one row for each Tag of the union of R0's  *)
(* and R1's tags, none for another Tag, in ascending lexicographic order   *)
(* of Tag.                                                                 *)
C1_TagUnionSorted ==
    Compared =>
        /\ Range(ResultTags) = SheetTags(Sheet0) \cup SheetTags(Sheet1)
        /\ \A i, j \in 1..Len(ResultTags) : i < j => StrLess(ResultTags[i], ResultTags[j])
        /\ Result.columns[1] = Tag

\* a comparison whose tags come from both sheets, R0's sorting after R1's
C1_Witness ==
    /\ Compared
    /\ SheetTags(Sheet0) = {<<"B">>}
    /\ SheetTags(Sheet1) = {<<"A","B">>}
    /\ ResultTags = << <<"A","B">>, <<"B">> >>

\* a sheet that repeats a Tag gets one row for it
C1_WitnessDuplicate ==
    /\ Compared
    /\ Len(Sheet0.rows) = 2
    /\ Len(Result.rows) = 1

(* C2: Change_Type is 'Added in R1' iff the Tag is only in R1, 'Removed in *)
(* R1' iff only in R0, and for a Tag of both 'Modified' iff a column of    *)
(* the union differs after trimming (a column a side lacks counting as     *)
(* empty), else 'No Change'; a differing column one side lacks is rendered *)
(* '<v0> → <v1>' with the missing side empty.                              *)
C2_Classification ==
    Compared =>
        \A i \in 1..Len(Result.rows) :
            LET tag == ResultTags[i]
                in0 == tag \in SheetTags(Sheet0)
                in1 == tag \in SheetTags(Sheet1)
            IN  /\ ResultType(i) =
                       IF ~in0 THEN AddedInR1
                       ELSE IF ~in1 THEN RemovedInR1
                       ELSE IF \E k \in 1..Len(ExpectedColumns) : Differs(tag, ExpectedColumns[k])
                            THEN Modified
                       ELSE NoChange
                /\ in0 /\ in1 =>
                       \A k \in 1..Len(all_columns[1]) :
                           LET col == all_columns[1][k]
                           IN  (Differs(tag, col) /\ (~In(col, Sheet0.cols) \/ ~In(col, Sheet1.cols)))
                               => ResultCell(i, k) = SheetText(Sheet0, tag, col) \o ArrowSep
                                                       \o SheetText(Sheet1, tag, col)

\* the same without the rendering, for sheets with no column of the name
\* Change_Type: it holds, the classification goes wrong by that name alone
C2_ClassificationOtherNames ==
    (Compared /\ ~In(Change_Type, Sheet0.cols) /\ ~In(Change_Type, Sheet1.cols)) => C2_Classification

(* C3: all_columns has no duplicates and is R0's non-Tag columns in R0's   *)
(* order followed by the columns only R1 has, in their order in R1.        *)
C3_ColumnOrder ==
    Compared =>
        /\ all_columns[1] = ExpectedColumns
        /\ \A i, j \in 1..Len(all_columns[1]) : i < j => all_columns[1][i] # all_columns[1][j]

(* C4: two comparisons of the same (R0, R1) give identical results: rows,  *)
(* columns, rendered values and summaries, all in the same order.          *)
C4_Deterministic ==
    (Compared /\ clicked = "Run Comparison" /\ Bound(prev_df)) => comparison_df = prev_df

(* C5: with a Tag column in both inputs the comparison ends without error  *)
(* in a frame with the columns Tag, Change_Type, the column union and      *)
(* Change_Summary; two empty tables give that frame with no rows.          *)
C5_NoError ==
    (Loaded /\ BothHaveTag) =>
        /\ error = "none"
        /\ Bound(all_columns)
        /\ Result.columns = <<Tag, Change_Type>> \o all_columns[1] \o <<Change_Summary>>
        /\ (Sheet0.rows = <<>> /\ Sheet1.rows = <<>>) => Result.rows = <<>>

(* C7: a row is Modified exactly if one of its columns other than          *)
(* Change_Summary holds '→'.                                               *)
C7_RoundTrip ==
    Compared =>
        \A i \in 1..Len(Result.rows) :
            (ResultType(i) = Modified)
                <=> \E j \in 1..(Len(Result.columns) - 1) : Contains(Result.rows[i][j], ArrowChar)

NoArrowIn(sheet) ==
    \A i \in 1..Len(sheet.rows), j \in 1..Len(sheet.cols) : ~Contains(sheet.rows[i][j], ArrowChar)

\* with no '→' in either sheet, an arrow in such a column means the row is
\* Modified
C7_ArrowMeansModified ==
    (Compared /\ NoArrowIn(Sheet0) /\ NoArrowIn(Sheet1)) =>
        \A i \in 1..Len(Result.rows) :
            (\E j \in 1..(Len(Result.columns) - 1) : Contains(Result.rows[i][j], ArrowChar))
                => ResultType(i) = Modified

\* every value a loaded table holds: its cells and, once indexed, its keys
LoadedValues(df) ==
    { df.rows[i][j] : i \in 1..Len(df.rows), j \in 1..Len(df.columns) }
        \cup (IF "index" \in DOMAIN df THEN Range(df.index) ELSE {})

FieldNames == {Change_Type, Change_Summary}

C8_WitnessEmptyCell ==
    /\ Compared
    /\ \E i \in 1..Len(Sheet0.rows), j \in 1..Len(Sheet0.cols) : Sheet0.rows[i][j] = NaN
    /\ \E i \in 1..Len(Result.rows), k \in 1..Len(all_columns[1]) :
          ResultCell(i, k) = ArrowSep \o <<"5", " ">>

(* C6: when an input lacks the Tag column the run reports the schema error *)
(* and stops before the deduplication: no comparison rows, completed stays *)
(* false, no result table and no export in that run.                       *)
C6_SchemaErrorStops ==
    (Loaded /\ (~HasTag(Sheet0) \/ ~HasTag(Sheet1))) =>
        /\ error = "SchemaError"
        /\ ~completed
        /\ r0_df = Some(ReadExcel(Sheet0))
        /\ r1_df = Some(ReadExcel(Sheet1))
        /\ all_columns = None
        /\ comparison_rows = None
        /\ comparison_df = None
        /\ export = None
        /\ ~logout_shown

\* a run stopped by the schema error although one sheet has its Tag column,
\* and repeats a tag
C6_Witness ==
    /\ Loaded
    /\ error = "SchemaError"
    /\ clicked = "Run Comparison"
    /\ ~HasTag(Sheet0)
    /\ HasTag(Sheet1)
    /\ Len(r1_df[1].rows) = 2

(* C9: whenever the results block runs (completed is true), the tables and *)
(* the result it reads were computed by the processing block in that run.  *)
C9_ResultsReadFreshData ==
    (page = "main" /\ completed) =>
        (Bound(r0_df) /\ Bound(r1_df) /\ Bound(comparison_df) /\ error # "NameError")

(* C10: authenticated becomes true only by a Verify OTP whose code is the  *)
(* stored OTP, at most 300 seconds after the OTP was sent; a Verify after  *)
(* that clears the stored OTP and does not authenticate; and the script    *)
(* runs nothing below the gate while authenticated is false.               *)
C10_LoginGate ==
    /\ [][ (~authenticated /\ authenticated') =>
              /\ clicked' = "Verify OTP"
              /\ otp # NoOtp
              /\ user_otp' = otp
              /\ now - otp_time <= 300 ]_vars
    /\ [][ (~authenticated /\ otp # NoOtp /\ clicked' = "Verify OTP" /\ now' = now
                /\ now - otp_time > 300) =>
              (otp' = NoOtp /\ ~authenticated' /\ page' = "login") ]_vars
    /\ [](page = "main" => authenticated)
    /\ [](~authenticated =>
              /\ ~run /\ ~completed /\ ~logout_shown
              /\ r0_df = None /\ r1_df = None /\ comparison_rows = None
              /\ comparison_df = None /\ export = None)

\* a login at the last second of the OTP's life
C10_Witness ==
    /\ authenticated
    /\ page = "main"
    /\ clicked = "Verify OTP"
    /\ now - otp_time = 300

\* an expired OTP, cleared by the Verify that found it so
C10_WitnessExpired ==
    /\ ~authenticated
    /\ clicked = "Verify OTP"
    /\ otp = NoOtp
    /\ otp_time # NoTime
    /\ now - otp_time > 300

====
